---------------------------- MODULE Spec2Model ----------------------------
(***************************************************************************)
(* A model of bwsd0/web: the middleware pipeline (Apply, Recover, Log,     *)
(* SecureHeaders, AcceptHeaders), the Index handler, and the listener      *)
(* coordinator (ListenAndServe, Server).                                   *)
(*                                                                         *)
(* Three specifications share the module:                                  *)
(*   Spec      one request at a time served by a handler built from the    *)
(*             middlewares (the server's own handler and the unit setups). *)
(*   SpecApply concurrent applications of one Apply result, each followed  *)
(*             by a request served through the handler it returned.        *)
(*   SpecSrv   the goroutines of Server/ListenAndServe; FairSrv adds the   *)
(*             fairness of the Go scheduler.                               *)
(***************************************************************************)
EXTENDS Integers, Sequences, FiniteSets, TLC

VARIABLES
    \* ---- Spec: the request pipeline
    phase,      \* "idle" | "accepted" | "served"
    handler,    \* the http.Handler serving the request: its layers, outermost first
    req,        \* the *http.Request
    x,          \* the exchange: the http.ResponseWriter, the recorder, the logger output
    prev,       \* what the previous request on this server ended as
    \* ---- SpecApply: Apply's closure and its applications
    mws,        \* the m ...Middleware captured by the closure Apply returns
    app,        \* per application: the loop's i and h, and the request served after it
    \* ---- SpecSrv: Server / ListenAndServe
    selfSign,   \* the -s flag
    pc,         \* position of the main goroutine
    cfg,        \* the *tls.Config: "nil" | "set" ; its MinVersion
    l80,        \* the goroutine of http.ListenAndServe(":80")
    ltls,       \* the goroutine of s.ListenAndServeTLS
    errc,       \* ListenAndServe's errc, a channel of capacity 3
    sig,        \* signal handling: registered, channel ch, the goroutine, history
    proc,       \* the process: running, exited with a code, or killed by the signal
    inflight,   \* requests being served by the TLS listener
    fatal,      \* what the process logged as fatal, "" when nothing
    hist,       \* the outcomes sent on errc so far, and what ListenAndServe returned
    \* ---- SpecUUID: NewV4UUID and NewRequestContext
    rnd,        \* what the random source delivers, and the request's "uuid" header
    uuid        \* NewV4UUID's result and the value NewRequestContext stored

reqVars == <<phase, handler, req, x, prev>>
appVars == <<mws, app>>
srvVars == <<selfSign, pc, cfg, l80, ltls, errc, sig, proc, inflight, fatal, hist>>
uuidVars == <<rnd, uuid>>
vars == <<phase, handler, req, x, prev, mws, app,
          selfSign, pc, cfg, l80, ltls, errc, sig, proc, inflight, fatal, hist, rnd, uuid>>

---------------------------------------------------------------------------
(* Bounds *)

\* URLs up to this many characters past maxURILen are tried.
MaxOver == 1
\* Apply is given up to this many middlewares.
MaxMw == 3
\* This many applications of one Apply result run concurrently.
NApp == 2
\* Requests in flight on the TLS listener.
MaxInflight == 1
\* Interrupt signals delivered to the process.
MaxSig == 2

---------------------------------------------------------------------------
(* net/http as the source uses it *)

maxURILen == 512

StatusOK == 200
StatusMovedPermanently == 301
StatusNotFound == 404
StatusMethodNotAllowed == 405
StatusRequestURITooLong == 414
StatusInternalServerError == 500

DefaultAllowedMethods == <<"GET", "HEAD", "OPTIONS">>

Methods == {"GET", "HEAD", "OPTIONS", "POST", "DELETE"}

\* The value init() leaves in DefaultCSP: the directives of csp, sorted, joined by ";".
DefaultCSP ==
    "base-uri 'none';default-src 'none';font-src 'self';form-action 'none';frame-ancestors 'none';img-src 'self';style-src 'self'"

hostList == {"blog.bwsd.net", "bwsd.net", "www.bwsd.net"}

\* Hosts a request may name, as received (r.Host).
Hosts == {"bwsd.net", "WWW.BWSD.NET", "evil.example"}

ToLower(s) == IF s = "WWW.BWSD.NET" THEN "www.bwsd.net" ELSE s

StrLen(s) ==
    CASE s = "" -> 0
      [] s = "http" -> 4
      [] s = "https" -> 5
      [] s = "bwsd.net" -> 8
      [] s = "WWW.BWSD.NET" -> 12
      [] s = "evil.example" -> 12
      [] s = "q=1" -> 3

SecurityHeaders ==
    {"Strict-Transport-Security", "Content-Security-Policy", "X-Frame-Options",
     "Permissions-Policy", "X-Content-Type-Options", "Referrer-Policy"}

HeaderNames ==
    SecurityHeaders \cup {"Location", "Content-Type", "Cache-Control"}

\* url.URL.String() of a URL with a scheme, a host, a path and a query: its
\* length.  "scheme:" is written when a scheme is set, "//" when a scheme or host
\* is set and the host or the path is not empty, "?query" when a query is set.
URLStringLen(u) ==
    (IF u.scheme # "" THEN StrLen(u.scheme) + 1 ELSE 0)
    + (IF u.scheme # "" \/ u.host # ""
         THEN (IF u.host # "" \/ u.pathLen > 0 THEN 2 ELSE 0) + StrLen(u.host)
         ELSE 0)
    + u.pathLen
    + (IF u.query # "" THEN 1 + StrLen(u.query) ELSE 0)

\* No URL: the value of a Location that was not set.
NoURL == [scheme |-> "", host |-> "", pathLen |-> 0, query |-> ""]

\* A fresh response writer, with no recorder around it and nothing logged.
NewExchange ==
    [ wroteHeader |-> FALSE,     \* the status line is on the wire
      status      |-> 0,         \* the status on the wire, 0 before it
      hdr         |-> [k \in HeaderNames |-> ""],  \* the headers that go on the wire
      location    |-> NoURL,     \* the URL that the Location header's text denotes
      body        |-> 0,         \* bytes of body written
      superfluous |-> 0,         \* WriteHeader calls after the first, which net/http ignores
      rec         |-> [on |-> FALSE, status |-> 0, size |-> 0],  \* Log's statusRecorder
      panicking   |-> FALSE,     \* a panic is unwinding the goroutine
      trace       |-> <<>>,      \* the layers entered and left, in order
      logs        |-> <<>>,      \* the access-log entries printed
      slow        |-> 0,         \* the "slow request" lines printed
      ctx         |-> <<>>,      \* the UUID in the request's context, <<>> when none
      generated   |-> 0,         \* UUIDs generated for the request
      fsCalls     |-> 0,         \* times the file server was invoked
      called      |-> 0 ]        \* times the innermost handler was invoked

\* Header().Set: a header set after the status line went out does not reach the client.
SetHeader(w, k, v) == IF w.wroteHeader THEN w ELSE [w EXCEPT !.hdr[k] = v]

\* The WriteHeader of net/http's own response: the first call decides the status.
WireWriteHeader(w, code) ==
    IF w.wroteHeader
      THEN [w EXCEPT !.superfluous = @ + 1]
      ELSE [w EXCEPT !.wroteHeader = TRUE, !.status = code]

\* w.WriteHeader(code) as a handler calls it: through the statusRecorder when Log
\* has wrapped the writer.
WriteHeader(w, code) ==
    IF w.rec.on
      THEN WireWriteHeader([w EXCEPT !.rec.status = code], code)
      ELSE WireWriteHeader(w, code)

\* w.Write(n bytes): statusRecorder has no Write of its own, so the embedded
\* writer's is called; it sends an implicit 200 when no status was written.
Write(w, n) ==
    LET w1 == IF w.wroteHeader THEN w ELSE WireWriteHeader(w, StatusOK)
    IN  [w1 EXCEPT !.body = @ + n]

\* http.Error(w, text, code)
HttpError(w, code, textLen) ==
    LET w1 == SetHeader(w, "Content-Type", "text/plain; charset=utf-8")
        w2 == SetHeader(w1, "X-Content-Type-Options", "nosniff")
    IN  Write(WriteHeader(w2, code), textLen + 1)

\* http.Redirect(w, r, url, code), url being the text of u, which has a scheme
\* (so it is not resolved against the request): Location is that text; a
\* Content-Type and a short body for GET and HEAD; and the status.
HttpRedirect(w, r, u, code) ==
    LET w0 == IF w.wroteHeader THEN w ELSE [w EXCEPT !.location = u]
        w1 == SetHeader(w0, "Location", "set")
        w2 == IF r.method \in {"GET", "HEAD"}
                THEN SetHeader(w1, "Content-Type", "text/html; charset=utf-8")
                ELSE w1
        w3 == WriteHeader(w2, code)
    IN  IF r.method = "GET" THEN Write(w3, 1) ELSE w3

Enter(w, name) == [w EXCEPT !.trace = Append(@, <<"in", name>>)]
Leave(w, name) == [w EXCEPT !.trace = Append(@, <<"out", name>>)]


---------------------------------------------------------------------------
(* UUIDs *)

Byte == 0..255

Bit(b, k) == (b \div (2 ^ k)) % 2

RECURSIVE BitsFrom(_, _, _, _)
\* The byte whose bit j, for j from k up to 7, is op[bit j of a][bit j of b].
BitsFrom(op, a, b, k) ==
    IF k > 7 THEN 0
    ELSE op[Bit(a, k)][Bit(b, k)] * (2 ^ k) + BitsFrom(op, a, b, k + 1)

\* a & b and a | b on bytes
BitAnd(a, b) == BitsFrom([p \in {0, 1} |-> [q \in {0, 1} |-> p * q]], a, b, 0)
BitOr(a, b) == BitsFrom([p \in {0, 1} |-> [q \in {0, 1} |-> IF p + q > 0 THEN 1 ELSE 0]], a, b, 0)

\* var u UUID: sixteen zero bytes.  u[i] of the source is u[i + 1] here.
ZeroUUID == [i \in 1..16 |-> 0]

\* io.ReadFull(r, u[:]): the source r delivers r.n of its bytes; fewer than
\* sixteen is an error, and u keeps what was read.
ReadFull(r) ==
    [u |-> [i \in 1..16 |-> IF i <= r.n THEN r.bytes[i] ELSE 0], err |-> r.n < 16]

\* NewV4UUID: on a read error u is returned as read; otherwise
\* u[6] = (u[6] & 0x0f) | 0x40 and u[8] = (u[8] & 0x3f) | 0x80.
NewV4UUID(r) ==
    LET rd == ReadFull(r)
    IN  IF rd.err THEN rd
        ELSE [u |-> [rd.u EXCEPT ![7] = BitOr(BitAnd(@, 15), 64),
                                 ![9] = BitOr(BitAnd(@, 63), 128)],
              err |-> FALSE]

\* NewV4UUIDRandom: NewV4UUID(rander)
NewV4UUIDRandom(r) == NewV4UUID(r)

RECURSIVE HexEncode(_, _, _)
\* hex.Encode of u[from..to]: two digits a byte, a digit being its value 0..15.
HexEncode(u, from, to) ==
    IF from > to THEN <<>>
    ELSE <<u[from] \div 16, u[from] % 16>> \o HexEncode(u, from + 1, to)

\* The character '-' among the digits of a text.
Hyphen == -1

\* UUID.String(): 8-4-4-4-12 hexadecimal digits, 36 characters.
String(u) ==
    HexEncode(u, 1, 4) \o <<Hyphen>> \o HexEncode(u, 5, 6) \o <<Hyphen>>
      \o HexEncode(u, 7, 8) \o <<Hyphen>> \o HexEncode(u, 9, 10) \o <<Hyphen>>
      \o HexEncode(u, 11, 16)

\* NewRequestContext: a UUID is generated when the request has no "uuid" header
\* (an error of the generator is printed and its UUID kept); with a header the
\* variable uuid keeps its zero value.  The UUID goes into the context; the
\* header's text itself is not used.
NewRequestContext(rid, r) ==
    IF rid = <<>>
      THEN LET g == NewV4UUIDRandom(r)
           IN  [uuid |-> g.u, printedErr |-> g.err, generated |-> 1]
      ELSE [uuid |-> ZeroUUID, printedErr |-> FALSE, generated |-> 0]

\* Sixteen bytes of the random source: bytes 6 and 8 are b6 and b8, the others
\* differ from each other.
RandomBytes(b6, b8) ==
    [i \in 1..16 |-> IF i = 7 THEN b6 ELSE IF i = 9 THEN b8 ELSE (b6 + 17 * i) % 256]

\* A text a client sends as its identifier, and the canonical text of a UUID.
ClientText == <<10, 11, 12>>
ClientUUID == String([i \in 1..16 |-> IF i = 7 THEN 65 ELSE IF i = 9 THEN 129 ELSE 16 + i])

\* The values of the request's "uuid" header: <<>> when it is absent or empty.
HeaderValues == {<<>>, ClientText, ClientUUID}

\* len(http.StatusText(code)) for the codes the source passes to http.Error, and
\* the text of http.NotFound.
StatusTextLen(code) ==
    CASE code = StatusRequestURITooLong -> 20
      [] code = StatusMethodNotAllowed -> 18
      [] code = StatusInternalServerError -> 21
      [] code = StatusNotFound -> 18

---------------------------------------------------------------------------
(* Handlers.  A handler is the sequence of its layers, outermost first; a    *)
(* layer is [kind, m], m being the methods given to AcceptHeaders.  The      *)
(* innermost layer is a responder: "mux" (the server's ServeMux, routing "/" *)
(* to Index) or "h" (a handler under test, which does what r.hb says).       *)

Layer(kind) == [kind |-> kind, m |-> <<>>]

RECURSIVE ServeHTTP(_, _, _)

\* A handler under test: it may write a status, write a body, and panic, in
\* that order (r.hb).
TestHandler(w, r) ==
    LET w0 == [Enter(w, "h") EXCEPT !.called = @ + 1]
        w1 == IF r.hb.pre # 0 THEN WriteHeader(w0, r.hb.pre) ELSE w0
        w2 == IF r.hb.bytes > 0 THEN Write(w1, r.hb.bytes) ELSE w1
    IN  IF r.hb.panic THEN [w2 EXCEPT !.panicking = TRUE] ELSE Leave(w2, "h")

\* http.FileServer(http.FS(fsys)).ServeHTTP: the file or a 404.
FileServer(w, r) ==
    LET w0 == [w EXCEPT !.fsCalls = @ + 1]
    IN  IF r.path.found
          THEN LET w1 == IF w0.hdr["Content-Type"] = ""
                           THEN SetHeader(w0, "Content-Type", "text/plain; charset=utf-8")
                           ELSE w0
               IN  Write(WriteHeader(w1, StatusOK), r.hb.bytes)
          ELSE HttpError(w0, StatusNotFound, StatusTextLen(StatusNotFound))

serveStaticFS(w, r) ==
    CASE r.path.base = "robots.txt" ->
           FileServer(SetHeader(SetHeader(w, "Cache-Control", "max-age=300"),
                                "Content-Type", "text/plain; charset=utf-8"), r)
      [] r.path.base = "security.txt" ->
           FileServer(SetHeader(w, "Content-Type", "text/plain; charset=utf-8"), r)
      [] OTHER -> w

\* Index: http.NotFound for the ACME challenge prefix, with no return after it,
\* then serveStaticFS.
Index(w, r) ==
    LET w0 == [Enter(w, "mux") EXCEPT !.called = @ + 1]
        w1 == IF r.path.acme
                THEN HttpError(w0, StatusNotFound, StatusTextLen(StatusNotFound))
                ELSE w0
    IN  Leave(serveStaticFS(w1, r), "mux")

\* Recover: the deferred function answers a panic of next with http.Error 500
\* and does not panic again.
Recover(next, w, r) ==
    LET w1 == ServeHTTP(next, Enter(w, "Recover"), r)
    IN  IF w1.panicking
          THEN Leave(HttpError([w1 EXCEPT !.panicking = FALSE],
                               StatusInternalServerError,
                               StatusTextLen(StatusInternalServerError)), "Recover")
          ELSE Leave(w1, "Recover")

\* NewCLFEntry: the identity is the UUID's text; status and size start at 0.
NewCLFEntry(r, u) ==
    [ident |-> String(u), method |-> r.method, status |-> 0, size |-> 0]

\* Log: wraps w in a statusRecorder{w, 200, 0}, serves, then prints the entry
\* with the recorder's status and size.  Nothing is deferred: a panic of next
\* skips the entry.
Log(next, w, r) ==
    LET ctx == NewRequestContext(r.rid, r.rnd)
        wr == [Enter(w, "Log") EXCEPT !.rec = [on |-> TRUE, status |-> StatusOK, size |-> 0],
                                      !.ctx = ctx.uuid, !.generated = @ + ctx.generated]
        l == NewCLFEntry(r, ctx.uuid)
        w1 == ServeHTTP(next, wr, r)
        took == r.took
    IN  IF w1.panicking
          THEN [w1 EXCEPT !.rec.on = FALSE]
          ELSE Leave([w1 EXCEPT !.logs = Append(@, [l EXCEPT !.status = w1.rec.status,
                                                             !.size = w1.rec.size]),
                                !.slow = IF took \div 1000 >= 200 THEN @ + 1 ELSE @,
                                !.rec.on = FALSE], "Log")

\* A mutant of SecureHeaders: the return after http.Redirect is missing.
SecureHeadersNoReturn(next, w, r) ==
    LET w0 == Enter(w, "SecureHeaders")
        w1 == IF r.tls = FALSE \/ r.url.scheme = "http"
                THEN HttpRedirect(w0, r, [r.url EXCEPT !.scheme = "https"], StatusMovedPermanently)
                ELSE w0
        w2 == SetHeader(w1, "Strict-Transport-Security",
                        "max-age=63072000; includeSubDomains; preload")
        w3 == SetHeader(w2, "Content-Security-Policy", DefaultCSP)
        w4 == SetHeader(w3, "X-Frame-Options", "Deny")
        w5 == SetHeader(w4, "Permissions-Policy", "interest-cohort=()")
        w6 == SetHeader(w5, "X-Content-Type-Options", "nosniff")
        w7 == SetHeader(w6, "Referrer-Policy", "same-origin")
        w8 == ServeHTTP(next, w7, r)
    IN  IF w8.panicking THEN w8 ELSE Leave(w8, "SecureHeaders")

\* A mutant of SecureHeaders: the Permissions-Policy header is left out.
SecureHeadersNoPolicy(next, w, r) ==
    LET w0 == Enter(w, "SecureHeaders")
    IN  IF r.tls = FALSE \/ r.url.scheme = "http"
          THEN Leave(HttpRedirect(w0, r, [r.url EXCEPT !.scheme = "https"], StatusMovedPermanently), "SecureHeaders")
          ELSE LET w2 == SetHeader(w0, "Strict-Transport-Security",
                                   "max-age=63072000; includeSubDomains; preload")
                   w3 == SetHeader(w2, "Content-Security-Policy", DefaultCSP)
                   w4 == SetHeader(w3, "X-Frame-Options", "Deny")
                   w6 == SetHeader(w4, "X-Content-Type-Options", "nosniff")
                   w7 == SetHeader(w6, "Referrer-Policy", "same-origin")
                   w8 == ServeHTTP(next, w7, r)
               IN  IF w8.panicking THEN w8 ELSE Leave(w8, "SecureHeaders")

\* SecureHeaders: host is computed and never used; a request without TLS, or
\* whose URL has the scheme http, is redirected to r.URL.String() after
\* r.URL.Scheme = "https", and is not passed on.
SecureHeaders(next, w, r) ==
    LET w0 == Enter(w, "SecureHeaders")
        host == IF ToLower(r.host) \in hostList THEN ToLower(r.host) ELSE "bwsd.net"
    IN  IF r.tls = FALSE \/ r.url.scheme = "http"
          THEN Leave(HttpRedirect(w0, r, [r.url EXCEPT !.scheme = "https"], StatusMovedPermanently), "SecureHeaders")
          ELSE LET w2 == SetHeader(w0, "Strict-Transport-Security",
                                   "max-age=63072000; includeSubDomains; preload")
                   w3 == SetHeader(w2, "Content-Security-Policy", DefaultCSP)
                   w4 == SetHeader(w3, "X-Frame-Options", "Deny")
                   w5 == SetHeader(w4, "Permissions-Policy", "interest-cohort=()")
                   w6 == SetHeader(w5, "X-Content-Type-Options", "nosniff")
                   w7 == SetHeader(w6, "Referrer-Policy", "same-origin")
                   w8 == ServeHTTP(next, w7, r)
               IN  IF w8.panicking THEN w8 ELSE Leave(w8, "SecureHeaders")

\* A mutant of AcceptHeaders: the length test is > instead of >=.
AcceptHeadersGt(m, next, w, r) ==
    LET w0 == Enter(w, "AcceptHeaders")
    IN  IF URLStringLen(r.url) > maxURILen
          THEN Leave(HttpError(w0, StatusRequestURITooLong,
                               StatusTextLen(StatusRequestURITooLong)), "AcceptHeaders")
          ELSE IF \E i \in 1..Len(DefaultAllowedMethods) : r.method = DefaultAllowedMethods[i]
                 THEN LET w1 == ServeHTTP(next, w0, r)
                      IN  IF w1.panicking THEN w1 ELSE Leave(w1, "AcceptHeaders")
                 ELSE Leave(HttpError(w0, StatusMethodNotAllowed,
                                      StatusTextLen(StatusMethodNotAllowed)), "AcceptHeaders")

\* A mutant of AcceptHeaders: the return after h.ServeHTTP is missing, so an
\* allowed request is served and then answered 405.
AcceptHeadersFallThrough(m, next, w, r) ==
    LET w0 == Enter(w, "AcceptHeaders")
    IN  IF URLStringLen(r.url) >= maxURILen
          THEN Leave(HttpError(w0, StatusRequestURITooLong,
                               StatusTextLen(StatusRequestURITooLong)), "AcceptHeaders")
          ELSE LET w1 == IF \E i \in 1..Len(DefaultAllowedMethods) :
                              r.method = DefaultAllowedMethods[i]
                           THEN ServeHTTP(next, w0, r)
                           ELSE w0
               IN  IF w1.panicking
                     THEN w1
                     ELSE Leave(HttpError(w1, StatusMethodNotAllowed,
                                          StatusTextLen(StatusMethodNotAllowed)),
                                "AcceptHeaders")

\* AcceptHeaders(m...): 414 for a URL of maxURILen characters or more; m, set to
\* the default when empty, is not what the loop ranges over: the loop ranges
\* over DefaultAllowedMethods.
AcceptHeaders(m, next, w, r) ==
    LET w0 == Enter(w, "AcceptHeaders")
        m1 == IF Len(m) = 0 THEN DefaultAllowedMethods ELSE m
    IN  IF URLStringLen(r.url) >= maxURILen
          THEN Leave(HttpError(w0, StatusRequestURITooLong,
                               StatusTextLen(StatusRequestURITooLong)), "AcceptHeaders")
          ELSE IF \E i \in 1..Len(DefaultAllowedMethods) : r.method = DefaultAllowedMethods[i]
                 THEN LET w1 == ServeHTTP(next, w0, r)
                      IN  IF w1.panicking THEN w1 ELSE Leave(w1, "AcceptHeaders")
                 ELSE Leave(HttpError(w0, StatusMethodNotAllowed,
                                      StatusTextLen(StatusMethodNotAllowed)), "AcceptHeaders")

\* h.ServeHTTP(w, r): the outermost layer runs, and calls the rest as its next.
ServeHTTP(h, w, r) ==
    LET l == Head(h)
        next == Tail(h)
    IN  CASE l.kind = "Recover" -> Recover(next, w, r)
          [] l.kind = "Log" -> Log(next, w, r)
          [] l.kind = "SecureHeaders" -> SecureHeaders(next, w, r)
          [] l.kind = "AcceptHeaders" -> AcceptHeaders(l.m, next, w, r)
          [] l.kind = "mux" -> Index(w, r)
          [] l.kind = "h" -> TestHandler(w, r)

---------------------------------------------------------------------------
(* Apply *)

\* A middleware applied to a handler wraps it: it becomes the outermost layer.
Wrap(mw, h) == <<mw>> \o h

\* A mutant of ApplyIter: the loop applies m[i] instead of m[len(m)-1-i].
ApplyIterForward(m, i, h) == Wrap(m[i + 1], h)

\* One iteration of Apply's loop: h = m[len(m)-1-i](h)  (m is 1-based here).
ApplyIter(m, i, h) == Wrap(m[(Len(m) - 1 - i) + 1], h)

RECURSIVE ApplyLoop(_, _, _)
\* The loop of the closure from iteration i on: for i := range m { ... }; return h
ApplyLoop(m, i, h) ==
    IF i >= Len(m) THEN h ELSE ApplyLoop(m, i + 1, ApplyIter(m, i, h))

\* Apply(m...)(h)
Apply(m, h) == ApplyLoop(m, 0, h)

\* var Default = Apply(Log, Recover)
Default(h) == Apply(<<Layer("Log"), Layer("Recover")>>, h)

\* middleware(mux): Apply(SecureHeaders(), AcceptHeaders())(mux)
middleware(mux) == Apply(<<Layer("SecureHeaders"), Layer("AcceptHeaders")>>, mux)

\* AcceptHeaders(m...) as a Middleware value
AcceptHeadersOf(m) == [kind |-> "AcceptHeaders", m |-> m]

---------------------------------------------------------------------------
(* Spec: requests served one after the other *)

\* The request URL as the server parses it: origin-form (no scheme, no host) or
\* absolute-form with the scheme http or https.
URLForms(host) ==
    {[scheme |-> "", host |-> ""]}
      \cup {[scheme |-> s, host |-> host] : s \in {"http", "https"}}

\* Path lengths: a short path, and those that bring the serialized URL to
\* maxURILen - 1, maxURILen, ..., maxURILen + MaxOver characters.
PathLens(f, q) ==
    LET rest == URLStringLen([scheme |-> f.scheme, host |-> f.host, pathLen |-> 1,
                              query |-> q]) - 1
    IN  {1} \cup {n - rest : n \in (maxURILen - 1)..(maxURILen + MaxOver)}

\* The queries tried: none, and one.
Queries == {"", "q=1"}

URLs(host) ==
    UNION {{[scheme |-> f.scheme, host |-> f.host, pathLen |-> n, query |-> q] :
              n \in PathLens(f, q)} :
             f \in URLForms(host), q \in Queries}

\* What a handler under test does: writes the status pre (0: none), writes
\* bytes of body, panics.
HandlerBehaviours == [pre : {0, StatusNotFound}, bytes : {0, 5}, panic : BOOLEAN]

NoBehaviour == [pre |-> 0, bytes |-> 5, panic |-> FALSE]

Paths == [acme : BOOLEAN, base : {"robots.txt", "security.txt", "other"}, found : BOOLEAN]

NoPath == [acme |-> FALSE, base |-> "other", found |-> FALSE]

\* The method lists given to AcceptHeaders in the unit setups; <<>> is AcceptHeaders().
MethodLists == {<<>>, <<"POST">>, <<"GET", "POST">>}

TestH == <<Layer("h")>>
Mux == <<Layer("mux")>>

\* The handlers under test around a handler h, and the server's own handler,
\* which only the TLS listener serves: its requests all have r.TLS set.
UnitHandlers ==
    {Apply(<<Layer("SecureHeaders")>>, TestH), Apply(<<Layer("Recover")>>, TestH), Default(TestH)}
      \cup {Apply(<<AcceptHeadersOf(m)>>, TestH) : m \in MethodLists}

ServerHandler == middleware(Mux)

\* What the random source delivers to a request that Log handles.
RandomSamples ==
    {[n |-> 16, bytes |-> RandomBytes(255, 255)], [n |-> 16, bytes |-> RandomBytes(0, 0)],
     [n |-> 7, bytes |-> RandomBytes(255, 255)]}

\* Nanoseconds between the entry's timestamp and the return of the downstream
\* handler: 0.1 ms, 1 ms, 200 ms, and 1 ns more than 200 ms.
Elapsed == {100000, 1000000, 200000000, 200000001}

\* What only Log reads of a request: the "uuid" header, the random source and
\* the clock.
NoLogInput == [rid |-> <<>>, rnd |-> [n |-> 16, bytes |-> RandomBytes(0, 0)], took |-> 100000]

LogInputs ==
    {[rid |-> h, rnd |-> s, took |-> NoLogInput.took] : h \in HeaderValues, s \in RandomSamples}
      \cup {[NoLogInput EXCEPT !.took = t] : t \in Elapsed}

HasLog(h) == \E i \in 1..Len(h) : h[i].kind = "Log"

\* SecureHeaders and AcceptHeaders read the request's URL and host; Log, Recover
\* and the handlers do not.
ReadsURL(h) == \E i \in 1..Len(h) : h[i].kind \in {"SecureHeaders", "AcceptHeaders"}

\* The request "GET / HTTP/1.1".
RootURL == [scheme |-> "", host |-> "", pathLen |-> 1, query |-> ""]

Requests(h) ==
    UNION {{[tls |-> t, host |-> ho, method |-> me, url |-> u, path |-> p, hb |-> b,
             rid |-> li.rid, rnd |-> li.rnd, took |-> li.took] :
              t \in (IF h = ServerHandler THEN {TRUE} ELSE BOOLEAN),
              me \in Methods, u \in (IF ReadsURL(h) THEN URLs(ho) ELSE {RootURL}),
              p \in (IF h = ServerHandler THEN Paths ELSE {NoPath}),
              b \in (IF h = ServerHandler THEN {NoBehaviour} ELSE HandlerBehaviours),
              li \in (IF HasLog(h) THEN LogInputs ELSE {NoLogInput})} :
             ho \in (IF ReadsURL(h) THEN Hosts ELSE {"bwsd.net"})}

NoRequest ==
    [tls |-> FALSE, host |-> "bwsd.net", method |-> "GET",
     url |-> RootURL, path |-> NoPath, hb |-> NoBehaviour,
     rid |-> NoLogInput.rid, rnd |-> NoLogInput.rnd, took |-> NoLogInput.took]

\* What net/http's conn.serve does when the handler returns: an implicit 200 when
\* no status was written; a panic that reaches it is recovered there, logged, and
\* the connection is closed without a complete response.
finishRequest(w) ==
    IF w.panicking
      THEN [aborted |-> TRUE, w |-> w]
      ELSE [aborted |-> FALSE,
            w |-> IF w.wroteHeader THEN w ELSE WireWriteHeader(w, StatusOK)]

ReqInit ==
    /\ phase = "idle"
    /\ handler = ServerHandler
    /\ req = NoRequest
    /\ x = [aborted |-> FALSE, w |-> NewExchange]
    /\ prev = "none"

\* A request arrives, for the server's handler or for one of the unit setups.
Accept ==
    /\ phase = "idle"
    /\ \E h \in UnitHandlers \cup {ServerHandler} :
         /\ handler' = h
         /\ \E r \in Requests(h) : req' = r
    /\ x' = [aborted |-> FALSE, w |-> NewExchange]
    /\ phase' = "accepted"
    /\ UNCHANGED <<prev, appVars, srvVars, uuidVars>>

\* The handler serves the request and the server completes the response.
Serve ==
    /\ phase = "accepted"
    /\ x' = finishRequest(ServeHTTP(handler, NewExchange, req))
    /\ phase' = "served"
    /\ UNCHANGED <<handler, req, prev, appVars, srvVars, uuidVars>>

\* The exchange is over; the server goes on to the next request.
Finish ==
    /\ phase = "served"
    /\ prev' = IF req.hb.panic /\ x.w.called > 0
                 THEN (IF x.aborted THEN "aborted" ELSE "recovered")
                 ELSE "ok"
    /\ phase' = "idle"
    /\ handler' = ServerHandler
    /\ req' = NoRequest
    /\ x' = [aborted |-> FALSE, w |-> NewExchange]
    /\ UNCHANGED <<appVars, srvVars, uuidVars>>

---------------------------------------------------------------------------
(* SpecApply: one Apply(m...) result, applied NApp times concurrently; each   *)
(* handler it returns then serves a request, layer by layer.                  *)

\* Middlewares that only call next: they are told apart by name.
MwNames == {"mA", "mB", "mC"}

RECURSIVE SeqsUpTo(_, _)
SeqsUpTo(S, n) ==
    IF n = 0 THEN {<<>>}
    ELSE LET shorter == SeqsUpTo(S, n - 1)
         IN  shorter \cup {Append(q, e) : q \in {t \in shorter : Len(t) = n - 1}, e \in S}

MwLists == SeqsUpTo({Layer(n) : n \in MwNames}, MaxMw)

Apps == 1..NApp

AppIdle ==
    /\ mws = <<>>
    /\ app = [a \in Apps |-> [pc |-> "idle", i |-> 0, h |-> <<>>, depth |-> 0, trace |-> <<>>]]

AppInit ==
    /\ mws \in MwLists
    /\ app = [a \in Apps |-> [pc |-> "call", i |-> 0, h |-> <<>>, depth |-> 0, trace |-> <<>>]]

\* The closure is called with the base handler: h is its parameter, i its loop variable.
ApplyCall(a) ==
    /\ app[a].pc = "call"
    /\ app' = [app EXCEPT ![a].pc = "loop", ![a].i = 0, ![a].h = TestH]
    /\ UNCHANGED <<mws, reqVars, srvVars, uuidVars>>

\* One iteration of the loop.
ApplyStep(a) ==
    /\ app[a].pc = "loop"
    /\ app[a].i < Len(mws)
    /\ app' = [app EXCEPT ![a].h = ApplyIter(mws, app[a].i, app[a].h), ![a].i = @ + 1]
    /\ UNCHANGED <<mws, reqVars, srvVars, uuidVars>>

\* return h
ApplyReturn(a) ==
    /\ app[a].pc = "loop"
    /\ app[a].i >= Len(mws)
    /\ app' = [app EXCEPT ![a].pc = "down"]
    /\ UNCHANGED <<mws, reqVars, srvVars, uuidVars>>

\* A request enters the next layer of the handler; the innermost one is the base
\* handler, which runs and returns.
LayerEnter(a) ==
    /\ app[a].pc = "down"
    /\ LET d == app[a].depth + 1
       IN  app' = [app EXCEPT ![a].depth = d,
                              ![a].trace = Append(@, <<"in", app[a].h[d].kind>>),
                              ![a].pc = IF d = Len(app[a].h) THEN "up" ELSE "down"]
    /\ UNCHANGED <<mws, reqVars, srvVars, uuidVars>>

\* The innermost layer entered returns to its caller.
LayerLeave(a) ==
    /\ app[a].pc = "up"
    /\ LET d == app[a].depth
       IN  app' = [app EXCEPT ![a].depth = d - 1,
                              ![a].trace = Append(@, <<"out", app[a].h[d].kind>>),
                              ![a].pc = IF d = 1 THEN "done" ELSE "up"]
    /\ UNCHANGED <<mws, reqVars, srvVars, uuidVars>>

---------------------------------------------------------------------------
(* SpecSrv: Server and ListenAndServe *)

ErrcCap == 3

SrvIdle ==
    /\ selfSign = TRUE
    /\ pc = "idle"
    /\ cfg = [set |-> FALSE, minTLS13 |-> FALSE]
    /\ l80 = [st |-> "none", err |-> ""]
    /\ ltls = [st |-> "none", err |-> ""]
    /\ errc = <<>>
    /\ sig = [reg |-> FALSE, ch |-> 0, go |-> "none", n |-> 0, afterListener |-> FALSE,
              registered |-> FALSE]
    /\ proc = [st |-> "running", code |-> -1]
    /\ inflight = 0
    /\ fatal = ""
    /\ hist = [sent |-> <<>>, ret |-> "none"]

SrvInit ==
    /\ selfSign \in BOOLEAN
    /\ pc = "provision"
    /\ cfg = [set |-> FALSE, minTLS13 |-> FALSE]
    /\ l80 = [st |-> "none", err |-> ""]
    /\ ltls = [st |-> "none", err |-> ""]
    /\ errc = <<>>
    /\ sig = [reg |-> FALSE, ch |-> 0, go |-> "none", n |-> 0, afterListener |-> FALSE,
              registered |-> FALSE]
    /\ proc = [st |-> "running", code |-> -1]
    /\ inflight = 0
    /\ fatal = ""
    /\ hist = [sent |-> <<>>, ret |-> "none"]

Running == proc.st = "running"

\* A mutant of Provision: the plaintext listener is started on the self-signed
\* path as well.
ProvisionAlways80 ==
    /\ Running
    /\ pc = "provision"
    /\ IF selfSign
         THEN \E ok \in BOOLEAN :
                IF ok
                  THEN /\ cfg' = [set |-> TRUE, minTLS13 |-> FALSE]
                       /\ pc' = "spawn80"
                       /\ UNCHANGED <<proc, fatal>>
                  ELSE /\ proc' = [st |-> "exited", code |-> 1]
                       /\ fatal' = "selfSignedX509"
                       /\ UNCHANGED <<cfg, pc>>
         ELSE /\ cfg' = [set |-> TRUE, minTLS13 |-> FALSE]
              /\ pc' = "spawn80"
              /\ UNCHANGED <<proc, fatal>>
    /\ UNCHANGED <<selfSign, l80, ltls, errc, sig, inflight, hist, reqVars, appVars, uuidVars>>

\* autocertX509 always returns a nil error; selfSignedX509 fails when the key,
\* the serial number or the certificate cannot be made, and log.Fatal ends the
\* process with status 1.
Provision ==
    /\ Running
    /\ pc = "provision"
    /\ IF selfSign
         THEN \E ok \in BOOLEAN :
                IF ok
                  THEN /\ cfg' = [set |-> TRUE, minTLS13 |-> FALSE]
                       /\ pc' = "pin"
                       /\ UNCHANGED <<proc, fatal>>
                  ELSE /\ proc' = [st |-> "exited", code |-> 1]
                       /\ fatal' = "selfSignedX509"
                       /\ UNCHANGED <<cfg, pc>>
         ELSE /\ cfg' = [set |-> TRUE, minTLS13 |-> FALSE]
              /\ pc' = "spawn80"
              /\ UNCHANGED <<proc, fatal>>
    /\ UNCHANGED <<selfSign, l80, ltls, errc, sig, inflight, hist, reqVars, appVars, uuidVars>>

\* go func() { errc <- http.ListenAndServe(":80", m.HTTPHandler(nil)) }()
Spawn80 ==
    /\ Running
    /\ pc = "spawn80"
    /\ l80' = [st |-> "starting", err |-> ""]
    /\ pc' = "pin"
    /\ UNCHANGED <<selfSign, cfg, ltls, errc, sig, proc, inflight, fatal, hist, reqVars, appVars, uuidVars>>

\* A mutant of Pin: the server is built without cfg.MinVersion being set.
PinNone ==
    /\ Running
    /\ pc = "pin"
    /\ pc' = "spawnTLS"
    /\ UNCHANGED <<selfSign, cfg, l80, ltls, errc, sig, proc, inflight, fatal, hist, reqVars, appVars, uuidVars>>

\* cfg.MinVersion = tls.VersionTLS13; s := &http.Server{...}; defer s.Close()
Pin ==
    /\ Running
    /\ pc = "pin"
    /\ cfg' = [cfg EXCEPT !.minTLS13 = TRUE]
    /\ pc' = "spawnTLS"
    /\ UNCHANGED <<selfSign, l80, ltls, errc, sig, proc, inflight, fatal, hist, reqVars, appVars, uuidVars>>

\* go func() { errc <- s.ListenAndServeTLS("", "") }()
SpawnTLS ==
    /\ Running
    /\ pc = "spawnTLS"
    /\ ltls' = [st |-> "starting", err |-> ""]
    /\ pc' = "notify"
    /\ UNCHANGED <<selfSign, cfg, l80, errc, sig, proc, inflight, fatal, hist, reqVars, appVars, uuidVars>>

\* ch := make(chan os.Signal, 1); signal.Notify(ch, os.Interrupt)
Notify ==
    /\ Running
    /\ pc = "notify"
    /\ sig' = [sig EXCEPT !.reg = TRUE]
    /\ pc' = "spawnSig"
    /\ UNCHANGED <<selfSign, cfg, l80, ltls, errc, proc, inflight, fatal, hist, reqVars, appVars, uuidVars>>

\* go func() { sig := <-ch; ...; os.Exit(0) }()
SpawnSig ==
    /\ Running
    /\ pc = "spawnSig"
    /\ sig' = [sig EXCEPT !.go = "waiting"]
    /\ pc' = "recv"
    /\ UNCHANGED <<selfSign, cfg, l80, ltls, errc, proc, inflight, fatal, hist, reqVars, appVars, uuidVars>>

\* A mutant of Recv: the value sent last is taken from the channel.
RecvLast ==
    /\ Running
    /\ pc = "recv"
    /\ errc # <<>>
    /\ errc' = SubSeq(errc, 1, Len(errc) - 1)
    /\ hist' = [hist EXCEPT !.ret = errc[Len(errc)]]
    /\ pc' = "close"
    /\ UNCHANGED <<selfSign, cfg, l80, ltls, sig, proc, inflight, fatal, reqVars, appVars, uuidVars>>

\* return <-errc: the receive blocks while the channel is empty and takes the
\* value at its head, which is the result.
Recv ==
    /\ Running
    /\ pc = "recv"
    /\ errc # <<>>
    /\ errc' = Tail(errc)
    /\ hist' = [hist EXCEPT !.ret = Head(errc)]
    /\ pc' = "close"
    /\ UNCHANGED <<selfSign, cfg, l80, ltls, sig, proc, inflight, fatal, reqVars, appVars, uuidVars>>

\* The deferred s.Close(): a TLS listener still starting or serving returns
\* http.ErrServerClosed.
Close ==
    /\ Running
    /\ pc = "close"
    /\ ltls' = IF ltls.st \in {"starting", "serving"}
                 THEN [st |-> "returned", err |-> "ErrServerClosed"]
                 ELSE ltls
    /\ pc' = "wrap"
    /\ UNCHANGED <<selfSign, cfg, l80, errc, sig, proc, inflight, fatal, hist, reqVars, appVars, uuidVars>>

\* Server: errc <- fmt.Errorf("ListenAndServe: %v", err), on a channel made
\* unbuffered in Server that no goroutine receives from: the send never
\* completes.  Nothing is logged and the process does not exit.
ServerSend ==
    /\ Running
    /\ pc = "wrap"
    /\ pc' = "blocked"
    /\ UNCHANGED <<selfSign, cfg, l80, ltls, errc, sig, proc, inflight, fatal, hist, reqVars, appVars, uuidVars>>

\* The plaintext listener binds and serves.
L80Listen ==
    /\ Running
    /\ l80.st = "starting"
    /\ l80' = [l80 EXCEPT !.st = "serving"]
    /\ UNCHANGED <<selfSign, pc, cfg, ltls, errc, sig, proc, inflight, fatal, hist, reqVars, appVars, uuidVars>>

\* http.ListenAndServe returns: the bind failed, or Accept failed for good.
L80Fail ==
    /\ Running
    /\ l80.st \in {"starting", "serving"}
    /\ l80' = [st |-> "returned", err |-> IF l80.st = "starting" THEN "bind" ELSE "accept"]
    /\ UNCHANGED <<selfSign, pc, cfg, ltls, errc, sig, proc, inflight, fatal, hist, reqVars, appVars, uuidVars>>

\* errc <- err, by the goroutine of the plaintext listener.
L80Send ==
    /\ Running
    /\ l80.st = "returned"
    /\ Len(errc) < ErrcCap
    /\ errc' = Append(errc, l80.err)
    /\ hist' = [hist EXCEPT !.sent = Append(@, l80.err)]
    /\ l80' = [l80 EXCEPT !.st = "sent"]
    /\ UNCHANGED <<selfSign, pc, cfg, ltls, sig, proc, inflight, fatal, reqVars, appVars, uuidVars>>

LtlsListen ==
    /\ Running
    /\ ltls.st = "starting"
    /\ ltls' = [ltls EXCEPT !.st = "serving"]
    /\ UNCHANGED <<selfSign, pc, cfg, l80, errc, sig, proc, inflight, fatal, hist, reqVars, appVars, uuidVars>>

LtlsFail ==
    /\ Running
    /\ ltls.st \in {"starting", "serving"}
    /\ ltls' = [st |-> "returned", err |-> IF ltls.st = "starting" THEN "bind" ELSE "accept"]
    /\ UNCHANGED <<selfSign, pc, cfg, l80, errc, sig, proc, inflight, fatal, hist, reqVars, appVars, uuidVars>>

LtlsSend ==
    /\ Running
    /\ ltls.st = "returned"
    /\ Len(errc) < ErrcCap
    /\ errc' = Append(errc, ltls.err)
    /\ hist' = [hist EXCEPT !.sent = Append(@, ltls.err)]
    /\ ltls' = [ltls EXCEPT !.st = "sent"]
    /\ UNCHANGED <<selfSign, pc, cfg, l80, sig, proc, inflight, fatal, reqVars, appVars, uuidVars>>

\* A request is accepted by the TLS listener, and one ends.
ReqBegin ==
    /\ Running
    /\ ltls.st = "serving"
    /\ inflight < MaxInflight
    /\ inflight' = inflight + 1
    /\ UNCHANGED <<selfSign, pc, cfg, l80, ltls, errc, sig, proc, fatal, hist, reqVars, appVars, uuidVars>>

ReqEnd ==
    /\ Running
    /\ inflight > 0
    /\ inflight' = inflight - 1
    /\ UNCHANGED <<selfSign, pc, cfg, l80, ltls, errc, sig, proc, fatal, hist, reqVars, appVars, uuidVars>>

\* SIGINT reaches the process.  After signal.Notify it is queued on ch, which
\* holds one signal (a second one is dropped); before, the Go runtime's default
\* applies and the process dies of the signal.
Interrupt ==
    /\ Running
    /\ sig.n < MaxSig
    /\ LET started == l80.st # "none" \/ ltls.st # "none"
       IN  IF sig.reg
             THEN /\ sig' = [sig EXCEPT !.n = @ + 1, !.ch = 1, !.registered = TRUE,
                                        !.afterListener = @ \/ started]
                  /\ UNCHANGED proc
             ELSE /\ sig' = [sig EXCEPT !.n = @ + 1, !.afterListener = @ \/ started]
                  /\ proc' = [st |-> "killed", code |-> -1]
    /\ UNCHANGED <<selfSign, pc, cfg, l80, ltls, errc, inflight, fatal, hist, reqVars, appVars, uuidVars>>

\* A mutant of SigExit: the goroutine lets the requests in flight end first.
SigExitDrain ==
    /\ Running
    /\ sig.go = "waiting"
    /\ sig.ch = 1
    /\ inflight = 0
    /\ sig' = [sig EXCEPT !.ch = 0, !.go = "done"]
    /\ proc' = [st |-> "exited", code |-> 0]
    /\ UNCHANGED <<selfSign, pc, cfg, l80, ltls, errc, inflight, fatal, hist, reqVars, appVars, uuidVars>>

\* sig := <-ch; log.Printf(...); os.Exit(0)
SigExit ==
    /\ Running
    /\ sig.go = "waiting"
    /\ sig.ch = 1
    /\ sig' = [sig EXCEPT !.ch = 0, !.go = "done"]
    /\ proc' = [st |-> "exited", code |-> 0]
    /\ UNCHANGED <<selfSign, pc, cfg, l80, ltls, errc, inflight, fatal, hist, reqVars, appVars, uuidVars>>

---------------------------------------------------------------------------
(* SpecUUID: NewV4UUID on what the random source delivers, and               *)
(* NewRequestContext on a request with or without a "uuid" header.           *)

\* The random source delivers all sixteen bytes, or fails after n of them.
RandomReads ==
    {[n |-> 16, bytes |-> RandomBytes(b6, b8)] : b6 \in Byte, b8 \in Byte}
      \cup {[n |-> n, bytes |-> RandomBytes(255, 255)] : n \in {0, 7, 9}}

UUIDIdle ==
    /\ rnd = [n |-> 16, bytes |-> ZeroUUID, rid |-> <<>>]
    /\ uuid = [step |-> "idle", gen |-> [u |-> ZeroUUID, err |-> FALSE],
               ctx |-> [uuid |-> ZeroUUID, printedErr |-> FALSE, generated |-> 0]]

UUIDInit ==
    /\ \E r \in RandomReads, h \in HeaderValues :
          rnd = [n |-> r.n, bytes |-> r.bytes, rid |-> h]
    /\ uuid = [step |-> "start", gen |-> [u |-> ZeroUUID, err |-> FALSE],
               ctx |-> [uuid |-> ZeroUUID, printedErr |-> FALSE, generated |-> 0]]

\* NewV4UUID(r) is called on the source.
Generate ==
    /\ uuid.step = "start"
    /\ uuid' = [uuid EXCEPT !.step = "generated", !.gen = NewV4UUID(rnd)]
    /\ UNCHANGED <<rnd, reqVars, appVars, srvVars>>

\* NewRequestContext(r) is called on a request with the header rnd.rid.
Context ==
    /\ uuid.step = "start"
    /\ uuid' = [uuid EXCEPT !.step = "context", !.ctx = NewRequestContext(rnd.rid, rnd)]
    /\ UNCHANGED <<rnd, reqVars, appVars, srvVars>>

---------------------------------------------------------------------------
(* The specifications *)

Init == ReqInit /\ AppIdle /\ SrvIdle /\ UUIDIdle

Next == Accept \/ Serve \/ Finish

Spec == Init /\ [][Next]_vars

InitApply == ReqInit /\ AppInit /\ SrvIdle /\ UUIDIdle

NextApply ==
    \E a \in Apps :
        ApplyCall(a) \/ ApplyStep(a) \/ ApplyReturn(a) \/ LayerEnter(a) \/ LayerLeave(a)

SpecApply == InitApply /\ [][NextApply]_vars

InitSrv == ReqInit /\ AppIdle /\ SrvInit /\ UUIDIdle

MainStep ==
    Provision \/ Spawn80 \/ Pin \/ SpawnTLS \/ Notify \/ SpawnSig \/ Recv \/ Close \/ ServerSend

NextSrv ==
    \/ MainStep
    \/ L80Listen \/ L80Fail \/ L80Send
    \/ LtlsListen \/ LtlsFail \/ LtlsSend
    \/ ReqBegin \/ ReqEnd
    \/ Interrupt \/ SigExit

SpecSrv == InitSrv /\ [][NextSrv]_vars

InitUUID == ReqInit /\ AppIdle /\ SrvIdle /\ UUIDInit

NextUUID == Generate \/ Context

SpecUUID == InitUUID /\ [][NextUUID]_vars

\* The Go scheduler runs every goroutine that can run.  The environment owes
\* nothing: no listener has to fail, no signal has to come, no request has to end.
FairSrv ==
    /\ SpecSrv
    /\ WF_vars(MainStep)
    /\ WF_vars(L80Listen) /\ WF_vars(L80Send)
    /\ WF_vars(LtlsListen) /\ WF_vars(LtlsSend)
    /\ WF_vars(SigExit)

---------------------------------------------------------------------------
(* Properties of the request pipeline (Spec) *)

Served == phase = "served"

\* The layer `name` was entered while the request was served.
Entered(name) == \E i \in 1..Len(x.w.trace) : x.w.trace[i] = <<"in", name>>

\* SecureHeaders is the handler's outermost layer: the request reaches it first.
ReachesSecureHeaders == Served /\ Head(handler).kind = "SecureHeaders"

\* The layer SecureHeaders passes the request on to.
Downstream == handler[2].kind

RequiredHeaders ==
    {"Strict-Transport-Security", "Content-Security-Policy", "X-Content-Type-Options",
     "Referrer-Policy", "Permissions-Policy"}

\* C1: a request that reaches SecureHeaders without TLS is answered 301 with a
\* Location, none of the six security headers is set on the response, and the
\* downstream handler is not invoked.
C1_PlainIsRedirected ==
    (ReachesSecureHeaders /\ req.tls = FALSE) =>
        /\ x.w.status = StatusMovedPermanently
        /\ x.w.hdr["Location"] # ""
        /\ \A k \in SecurityHeaders : x.w.hdr[k] = ""
        /\ x.w.called = 0
        /\ ~Entered(Downstream)

C1_Witness ==
    /\ ReachesSecureHeaders
    /\ req.tls = FALSE
    /\ req.method = "POST"
    /\ x.w.status = StatusMovedPermanently

\* C2 as claimed: every request over TLS, whatever the form of its request URL,
\* gets the five headers, non-empty, and reaches the downstream handler.
C2_Original ==
    (ReachesSecureHeaders /\ req.tls = TRUE) =>
        /\ \A k \in RequiredHeaders : x.w.hdr[k] # ""
        /\ Entered(Downstream)

\* C2 as amended: every request over TLS whose request URL does not have the
\* scheme http gets the five headers, non-empty, and reaches the downstream
\* handler; one whose request URL has the scheme http is redirected without them.
C2_TLSGetsHeaders ==
    /\ (ReachesSecureHeaders /\ req.tls = TRUE /\ req.url.scheme # "http") =>
          /\ \A k \in RequiredHeaders : x.w.hdr[k] # ""
          /\ Entered(Downstream)
    /\ (ReachesSecureHeaders /\ req.tls = TRUE /\ req.url.scheme = "http") =>
          /\ x.w.status = StatusMovedPermanently
          /\ \A k \in RequiredHeaders : x.w.hdr[k] = ""
          /\ ~Entered(Downstream)

C2_Witness ==
    /\ ReachesSecureHeaders
    /\ req.tls = TRUE
    /\ req.url.scheme = "https"
    /\ req.host = "evil.example"
    /\ req.method = "DELETE"
    /\ x.w.hdr["Content-Security-Policy"] = DefaultCSP
    /\ Entered(Downstream)

\* Recover wraps the handler under test directly.
RecoverAroundH ==
    handler \in {Apply(<<Layer("Recover")>>, TestH), Default(TestH)}

\* C3 as claimed: when the handler wrapped by Recover panics, before or after it
\* wrote, the client gets one response, its status is 500, the panic does not
\* leave Recover, and the next request, if its handler does not panic, gets the
\* response its handler wrote.
C3_PanicGives500 ==
    /\ (Served /\ RecoverAroundH /\ req.hb.panic) =>
          /\ x.aborted = FALSE
          /\ x.w.panicking = FALSE
          /\ x.w.status = StatusInternalServerError
          /\ x.w.superfluous = 0
    /\ (Served /\ RecoverAroundH /\ prev = "recovered" /\ ~req.hb.panic) =>
          /\ x.aborted = FALSE
          /\ x.w.status = (IF req.hb.pre # 0 THEN req.hb.pre ELSE StatusOK)

\* C6 as claimed: a request served by the TLS listener's handler passes Recover,
\* Log, SecureHeaders and AcceptHeaders before the static responder, Log being
\* entered before and left after the others, and one access-log entry is printed.
C6_FourProcessors ==
    (Served /\ handler = ServerHandler) =>
        /\ (x.w.called > 0 =>
              \A n \in {"Recover", "Log", "SecureHeaders", "AcceptHeaders"} : Entered(n))
        /\ Len(x.w.logs) = 1
        /\ \A i \in 1..Len(x.w.trace) :
              x.w.trace[i][2] \in {"SecureHeaders", "AcceptHeaders", "mux"} =>
                 /\ \E j \in 1..(i - 1) : x.w.trace[j] = <<"in", "Log">>
                 /\ \E j \in (i + 1)..Len(x.w.trace) : x.w.trace[j] = <<"out", "Log">>

\* The AcceptHeaders layer of the handler.
Gate == IF Head(handler).kind = "AcceptHeaders" THEN handler[1] ELSE handler[2]

ReachesGate == Served /\ Entered("AcceptHeaders")

\* C7: a request that reaches the gate with a URL of maxURILen characters or
\* more is answered 414 whatever its method and the downstream handler is not
\* invoked; a shorter URL is not answered 414.
C7_LongURLIs414 ==
    /\ (ReachesGate /\ URLStringLen(req.url) >= maxURILen) =>
          /\ x.w.status = StatusRequestURITooLong
          /\ x.w.called = 0
    /\ (ReachesGate /\ URLStringLen(req.url) < maxURILen) =>
          x.w.status # StatusRequestURITooLong

C7_Witness ==
    /\ ReachesGate
    /\ URLStringLen(req.url) = maxURILen
    /\ req.method = "GET"
    /\ x.w.status = StatusRequestURITooLong

\* The status of the response when only the handler under test writes to it.
HandlerStatus ==
    IF req.hb.pre # 0 THEN req.hb.pre
    ELSE IF req.hb.bytes > 0 \/ ~req.hb.panic THEN StatusOK ELSE 0

\* C8: at the default gate, within the length limit, a method other than GET,
\* HEAD, OPTIONS is answered 405 and not passed on; one of the three is passed
\* on exactly once and the status of the response is the handler's, not the gate's.
C8_DefaultGate ==
    (ReachesGate /\ Gate.m = <<>> /\ URLStringLen(req.url) < maxURILen) =>
        IF req.method \in {"GET", "HEAD", "OPTIONS"}
          THEN /\ x.w.called = 1
               /\ handler = Apply(<<AcceptHeadersOf(<<>>)>>, TestH) =>
                     /\ x.w.status = HandlerStatus
                     /\ x.w.superfluous = 0
          ELSE /\ x.w.status = StatusMethodNotAllowed
               /\ x.w.called = 0

C8_Witness ==
    /\ ReachesGate
    /\ handler = Apply(<<AcceptHeadersOf(<<>>)>>, TestH)
    /\ URLStringLen(req.url) = maxURILen - 1
    /\ req.method = "HEAD"
    /\ req.hb = [pre |-> 0, bytes |-> 0, panic |-> FALSE]
    /\ x.w.called = 1
    /\ x.w.status = StatusOK

InList(e, m) == \E i \in 1..Len(m) : m[i] = e

\* C9 as claimed: with a non-empty list M given to AcceptHeaders, a request
\* within the length limit is passed on if and only if its method is in M, and
\* is answered 405 otherwise.
C9_ListOverrides ==
    (ReachesGate /\ Gate.m # <<>> /\ URLStringLen(req.url) < maxURILen) =>
        /\ (x.w.called = 1) <=> InList(req.method, Gate.m)
        /\ ~InList(req.method, Gate.m) => x.w.status = StatusMethodNotAllowed

---------------------------------------------------------------------------
(* Properties of Apply (SpecApply) *)

RECURSIVE Events(_, _, _)
\* <<dir, m[from].kind>>, ..., in the order given by step (+1 or -1), while in range.
Events(dir, m, from) ==
    IF from < 1 \/ from > Len(m) THEN <<>>
    ELSE <<<<dir, m[from].kind>>>> \o Events(dir, m, IF dir = "in" THEN from + 1 ELSE from - 1)

\* What m1(m2(...mn(h))) does on a request: m1, ..., mn are entered, h runs,
\* mn, ..., m1 are left.
Nested(m) ==
    Events("in", m, 1) \o <<<<"in", "h">>, <<"out", "h">>>> \o Events("out", m, Len(m))

IsPrefix(p, q) == Len(p) <= Len(q) /\ \A i \in 1..Len(p) : p[i] = q[i]

\* C5: every application of Apply(m1, ..., mn) to h returns m1(m2(...mn(h))),
\* which is h itself when n = 0; each request served by it enters m1, ..., mn,
\* then h, and leaves mn, ..., m1, whatever the other applications are doing.
C5_ApplyOrder ==
    \A a \in Apps :
        /\ app[a].pc \in {"down", "up", "done"} => app[a].h = mws \o TestH
        /\ IsPrefix(app[a].trace, Nested(mws))
        /\ app[a].pc = "done" => app[a].trace = Nested(mws)

C5_Witness ==
    /\ Len(mws) = 3
    /\ mws[1] # mws[2] /\ mws[2] # mws[3] /\ mws[1] # mws[3]
    /\ app[1].pc = "done"
    /\ app[2].pc = "up"
    /\ app[1].trace = Nested(mws)

---------------------------------------------------------------------------
(* Properties of the listener coordinator (SpecSrv, FairSrv) *)

\* A listener has returned a (non-nil) error.
Reported ==
    \/ l80.st \in {"returned", "sent"} /\ l80.err # ""
    \/ ltls.st \in {"returned", "sent"} /\ ltls.err # ""

FatalExit == proc.st = "exited" /\ proc.code # 0 /\ fatal = "ListenAndServe"

\* C4 as claimed: once a listener has reported an error the process ends with a
\* fatal, non-zero outcome carrying "ListenAndServe: ..." (unless an interrupt
\* ends it first).
C4_ErrorIsFatal == Reported ~> (FatalExit \/ sig.n > 0)

\* C10 as claimed: an interrupt delivered once a listener has been started ends
\* the process with exit code 0.
C10_Original ==
    (sig.afterListener /\ proc.st # "running") => (proc.st = "exited" /\ proc.code = 0)

\* C10 as amended: an interrupt delivered once signal.Notify has registered the
\* handler ends the process with exit code 0, whatever the listeners, the
\* coordinator and the requests in flight are doing; the process ends in no
\* other way after it.
C10_InterruptExits0 ==
    /\ [](sig.registered => (proc.st = "running" \/ (proc.st = "exited" /\ proc.code = 0)))
    /\ (sig.registered ~> (proc.st = "exited" /\ proc.code = 0))

C10_Witness ==
    /\ sig.registered
    /\ proc.st = "exited"
    /\ proc.code = 0
    /\ pc = "blocked"
    /\ inflight > 0


\* C11: whenever the TLS listener has been started (so whenever it accepts
\* connections), on either provisioning path, its configuration exists and has
\* MinVersion TLS 1.3; the pin is never applied to a configuration that
\* provisioning has not produced.
C11_MinVersionPinned ==
    /\ ltls.st # "none" => (cfg.set /\ cfg.minTLS13)
    /\ cfg.minTLS13 => cfg.set

C11_Witness ==
    /\ selfSign = FALSE
    /\ ltls.st = "serving"
    /\ cfg.minTLS13

\* C12: the plaintext listener exists only when selfSign is false; when it is
\* false the listener is started before the TLS listener is; no listener is
\* started before provisioning has produced a configuration, and a failed
\* provisioning ends the process with no listener started.
C12_PlaintextIffAutocert ==
    /\ selfSign => l80.st = "none"
    /\ (~selfSign /\ pc \notin {"provision", "spawn80"}) => l80.st # "none"
    /\ (~selfSign /\ ltls.st # "none") => l80.st # "none"
    /\ (l80.st # "none" \/ ltls.st # "none") => cfg.set
    /\ fatal = "selfSignedX509" =>
          (proc = [st |-> "exited", code |-> 1] /\ l80.st = "none" /\ ltls.st = "none")

C12_Witness ==
    /\ selfSign = FALSE
    /\ l80.st = "serving"
    /\ ltls.st = "serving"


\* C13 as claimed: the Location of the redirect that SecureHeaders answers to a
\* request without TLS is the https URL with the host, the path and the query
\* of the request.
C13_LocationIsHttpsEquivalent ==
    (ReachesSecureHeaders /\ req.tls = FALSE) =>
        /\ x.w.hdr["Location"] # ""
        /\ x.w.location = [scheme |-> "https", host |-> req.host,
                           pathLen |-> req.url.pathLen, query |-> req.url.query]


\* C14: when the request supplies a "uuid" header, the identifier in the
\* request's context and in its access-log entry is the supplied text, and no
\* identifier is generated; one is generated only without the header.
C14_SuppliedIdIsUsed ==
    (Served /\ HasLog(handler)) =>
        /\ req.rid # <<>> =>
              /\ String(x.w.ctx) = req.rid
              /\ \A i \in 1..Len(x.w.logs) : x.w.logs[i].ident = req.rid
        /\ x.w.generated > 0 => req.rid = <<>>

C16_LoggedStatusIsWireStatus ==
    (Served /\ HasLog(handler)) =>
        \A i \in 1..Len(x.w.logs) : x.w.logs[i].status = x.w.status

\* C17: the size in the access-log entry of a request is the number of body
\* bytes written for it downstream of Log.
C17_LoggedSizeIsBodySize ==
    (Served /\ HasLog(handler)) =>
        \A i \in 1..Len(x.w.logs) : x.w.logs[i].size = x.w.body

\* C19: Log prints the "slow request" line for a request whose downstream
\* handler has returned if and only if more than 200 ms (req.took is in
\* nanoseconds) have elapsed.
C19_SlowIffOver200ms ==
    (Served /\ HasLog(handler) /\ Len(x.w.logs) > 0) =>
        (x.w.slow > 0 <=> req.took > 200 * 1000000)

\* C18: a listener at its send on errc is never blocked, also after
\* ListenAndServe has returned; errc never holds more than its capacity; and
\* ListenAndServe returns the outcome that was sent first.
C18_SendsNeverBlock ==
    /\ Len(errc) <= ErrcCap
    /\ l80.st = "returned" => Len(errc) < ErrcCap
    /\ ltls.st = "returned" => Len(errc) < ErrcCap
    /\ hist.ret # "none" => (hist.sent # <<>> /\ hist.ret = hist.sent[1])

\* ListenAndServe has returned the plaintext listener's outcome, and the TLS
\* listener, closed by the deferred s.Close(), has sent its own after that.
C18_Witness ==
    /\ pc \in {"wrap", "blocked"}
    /\ hist.ret # "none"
    /\ l80.st = "sent"
    /\ ltls.st = "sent"
    /\ hist.sent = <<hist.ret, "ErrServerClosed">>

\* u has version 4 in the high nibble of byte 6 and variant 10 in the top two
\* bits of byte 8.
HasV4Bits(u) ==
    /\ <<Bit(u[7], 7), Bit(u[7], 6), Bit(u[7], 5), Bit(u[7], 4)>> = <<0, 1, 0, 0>>
    /\ <<Bit(u[9], 7), Bit(u[9], 6)>> = <<1, 0>>

\* Every bit of u outside the version and the variant is the bit of b.
OtherBitsKept(u, b) ==
    \A i \in 1..16, k \in 0..7 :
        ~((i = 7 /\ k >= 4) \/ (i = 9 /\ k >= 6)) => Bit(u[i], k) = Bit(b[i], k)

\* When the random source delivers sixteen bytes, NewV4UUID returns them with
\* the version and the variant set and no other bit changed.
NewV4UUIDSetsBits ==
    (uuid.step = "generated" /\ rnd.n = 16) =>
        /\ ~uuid.gen.err
        /\ HasV4Bits(uuid.gen.u)
        /\ OtherBitsKept(uuid.gen.u, rnd.bytes)

\* C20: NewV4UUID returns the sixteen bytes of the random source with the
\* version and the variant set and no other bit changed, and the identifier
\* that NewRequestContext stores for a request without a "uuid" header has the
\* version and variant bits.
C20_IdentifiersAreV4 ==
    /\ NewV4UUIDSetsBits
    /\ (uuid.step = "context" /\ rnd.rid = <<>>) => HasV4Bits(uuid.ctx.uuid)
=============================================================================
